---- MODULE Spec2Model ----
(***************************************************************************)
(* Cadre quote extractor (streamlit_app.py): header extraction, line-item  *)
(* extraction, record assembly and the batch loop of the "Process PDFs"    *)
(* button.                                                                 *)
(*                                                                         *)
(* Text is a sequence of one-character strings.  Positions are 1-based;    *)
(* an "end" position is the position of the first character after a span   *)
(* (so the span [a, b) is SubSeq(t, a, b - 1)).  A search that finds       *)
(* nothing yields 0 where Python yields -1 or None.                        *)
(***************************************************************************)
EXTENDS Integers, Sequences, FiniteSets, TLC

VARIABLES
    sidebar,          \* text inputs: referral_manager, referral_email, brand
    uploaded_files,   \* st.file_uploader result: sequence of [name, pdf]
    pc,               \* position of the script run: "idle", "loop", "done"
    idx,              \* number of files the loop has handled
    all_rows,         \* rows collected by the loop
    warnings,         \* st.warning messages, in order
    errors,           \* st.error messages, in order
    export,           \* the st.download_button calls of the run, in order
    status,           \* status.text of the loop
    progress,         \* progress.progress of the loop, as <<idx, len>>
    full_text,        \* argument of an extractor call
    header,           \* result of extract_header_info
    items,            \* result of extract_line_items
    fn                \* position of an extractor call: "call", "return"

vars == <<sidebar, uploaded_files, pc, idx, all_rows, warnings, errors, export,
          status, progress, full_text, header, items, fn>>

batchVars == <<sidebar, uploaded_files, pc, idx, all_rows, warnings, errors, export,
               status, progress>>

----------------------------------------------------------------------------
(* Characters and character classes of the regular expressions             *)

Digit == {"0","1","2","3","4","5","6","7","8","9"}

Upper == {"A","B","C","D","E","F","G","H","I","J","K","L","M",
          "N","O","P","Q","R","S","T","U","V","W","X","Y","Z"}

Lower == {"a","b","c","d","e","f","g","h","i","j","k","l","m",
          "n","o","p","q","r","s","t","u","v","w","x","y","z"}

\* \s of re, and the characters str.strip() and str.split() treat as blank
Whitespace == {" ", "\n", "\t", "\r", "\f"}

\* Python's None; no text equals it, since text holds one-character strings
None == <<"None">>

Min(S) == CHOOSE x \in S : \A y \in S : x <= y

Max(S) == CHOOSE x \in S : \A y \in S : x >= y

\* the literal lit stands in t at position i
HasAt(t, i, lit) ==
    /\ i >= 1
    /\ i + Len(lit) - 1 <= Len(t)
    /\ \A k \in 1..Len(lit) : t[i + k - 1] = lit[k]

\* end of the longest run of characters of class C that starts at i
RECURSIVE RunEnd(_, _, _)
RunEnd(t, i, C) ==
    IF i > Len(t) THEN i
    ELSE IF t[i] \in C THEN RunEnd(t, i + 1, C) ELSE i

\* end of the longest run of characters outside class C that starts at i
RECURSIVE RunEndNot(_, _, _)
RunEndNot(t, i, C) ==
    IF i > Len(t) THEN i
    ELSE IF t[i] \notin C THEN RunEndNot(t, i + 1, C) ELSE i

\* str.find(lit, from) and str.index(lit): first position >= from, else 0
find(t, lit, from) ==
    LET S == {i \in from..(Len(t) - Len(lit) + 1) : HasAt(t, i, lit)}
    IN  IF S = {} THEN 0 ELSE Min(S)

\* t[a:b] of Python on 1-based positions; empty when b <= a
Slice(t, a, b) == SubSeq(t, a, b - 1)

\* str.strip()
strip(s) ==
    LET a == RunEnd(s, 1, Whitespace)
    IN  IF a > Len(s) THEN <<>>
        ELSE SubSeq(s, a, Max({k \in 1..Len(s) : s[k] \notin Whitespace}))

\* str.split() with no argument: the maximal runs of non-blank characters
RECURSIVE split(_)
split(s) ==
    LET a == RunEnd(s, 1, Whitespace)
        b == RunEndNot(s, a, Whitespace)
    IN  IF a > Len(s) THEN <<>>
        ELSE <<SubSeq(s, a, b - 1)>> \o split(SubSeq(s, b, Len(s)))

\* " ".join(parts)
RECURSIVE join(_)
join(parts) ==
    IF parts = <<>> THEN <<>>
    ELSE IF Len(parts) = 1 THEN parts[1]
    ELSE parts[1] \o <<" ">> \o join(Tail(parts))

----------------------------------------------------------------------------
(* extract_header_info                                                     *)

NoMatch == [ok |-> FALSE]

\* re.search: the match at the leftmost position where the pattern matches
search(MatchAt(_, _), t) ==
    LET S == {p \in 1..Len(t) : MatchAt(t, p).ok}
    IN  IF S = {} THEN NoMatch ELSE MatchAt(t, Min(S))

LitQuote == <<"Q","u","o","t","e">>

LitDate == <<"D","a","t","e">>

LitCustomer == <<"C","u","s","t","o","m","e","r">>

LitContact == <<"C","o","n","t","a","c","t">>

\* "Quoted For:"
LitQuotedFor == <<"Q","u","o","t","e","d"," ","F","o","r",":">>

\* "Quote Good Through"
LitQuoteGoodThrough == <<"Q","u","o","t","e"," ","G","o","o","d"," ","T","h","r","o","u","g","h">>

\* "Ship To:"
LitShipTo == <<"S","h","i","p"," ","T","o",":">>

\* "United States of America"
LitUnitedStates == <<"U","n","i","t","e","d"," ","S","t","a","t","e","s"," ","o","f"," ","A","m","e","r","i","c","a">>

LitUSA == <<"U","S","A">>

\* [A-Za-z .'-]
NameChars == Upper \cup Lower \cup {" ", ".", "'", "-"}

\* [A-Za-z0-9 .]
StreetChars == Upper \cup Lower \cup Digit \cup {" ", "."}

\* [A-Za-z0-9 ]
Street2Chars == Upper \cup Lower \cup Digit \cup {" "}

\* [A-Za-z .]
CityChars == Upper \cup Lower \cup {" ", "."}

\* \d{1,2} followed by "/": one or two digits, as many as the run allows
TwoDigitsEnd(t, f) ==
    LET r == RunEnd(t, f, Digit)
    IN  IF r - f >= 2 THEN f + 2 ELSE r

\* \d{1,2}/\d{1,2}/\d{4} at position f: its end, or 0 when it does not match
DateAt(t, f) ==
    LET m == TwoDigitsEnd(t, f)
        d == TwoDigitsEnd(t, m + 1)
    IN  IF /\ m > f
           /\ HasAt(t, m, <<"/">>)
           /\ d > m + 1
           /\ HasAt(t, d, <<"/">>)
           /\ d + 4 <= Len(t)
           /\ \A k \in 1..4 : t[d + k] \in Digit
        THEN d + 5
        ELSE 0

\* Quote\s+(\d+)\s+Date\s+(\d{1,2}/\d{1,2}/\d{4})
QuoteMatchAt(t, p) ==
    LET a == p + Len(LitQuote)
        b == RunEnd(t, a, Whitespace)
        c == RunEnd(t, b, Digit)
        d == RunEnd(t, c, Whitespace)
        e == d + Len(LitDate)
        f == RunEnd(t, e, Whitespace)
        g == DateAt(t, f)
    IN  IF /\ HasAt(t, p, LitQuote)
           /\ b > a /\ c > b /\ d > c
           /\ HasAt(t, d, LitDate)
           /\ f > e
           /\ g # 0
        THEN [ok |-> TRUE, start |-> p, end |-> g,
              g1 |-> Slice(t, b, c), s1 |-> b, e1 |-> c,
              g2 |-> Slice(t, f, g), s2 |-> f, e2 |-> g]
        ELSE NoMatch

\* Customer\s+(\d+)
CustomerMatchAt(t, p) ==
    LET a == p + Len(LitCustomer)
        b == RunEnd(t, a, Whitespace)
        c == RunEnd(t, b, Digit)
    IN  IF HasAt(t, p, LitCustomer) /\ b > a /\ c > b
        THEN [ok |-> TRUE, start |-> p, end |-> c,
              g1 |-> Slice(t, b, c), s1 |-> b, e1 |-> c]
        ELSE NoMatch

\* Contact\s+([A-Za-z .'-]+)
\* \s+ takes the whole run of blanks and gives back characters until a
\* character of the name class follows; the class then takes its whole run.
ContactMatchAt(t, p) ==
    LET a == p + Len(LitContact)
        w == RunEnd(t, a, Whitespace)
        B == {b \in (a + 1)..w : b <= Len(t) /\ t[b] \in NameChars}
    IN  IF HasAt(t, p, LitContact) /\ B # {}
        THEN LET b == Max(B)
                 c == RunEnd(t, b, NameChars)
             IN  [ok |-> TRUE, start |-> p, end |-> c,
                  g1 |-> Slice(t, b, c), s1 |-> b, e1 |-> c]
        ELSE NoMatch

\* \s+Ship To: at position e
ShipToFollows(t, e) ==
    /\ e <= Len(t)
    /\ t[e] \in Whitespace
    /\ HasAt(t, RunEnd(t, e, Whitespace), LitShipTo)

\* ends of (.+?) started at b: "." takes no newline, and \s+Ship To: follows
CompanyEnds(t, b) ==
    {e \in (b + 1)..RunEndNot(t, b, {"\n"}) : ShipToFollows(t, e)}

\* Quoted For:\s*(.+?)\s+Ship To:
\* \s* tries its longest run first, (.+?) its shortest.
CompanyMatchAt(t, p) ==
    LET a == p + Len(LitQuotedFor)
        w == RunEnd(t, a, Whitespace)
        B == {b \in a..w : CompanyEnds(t, b) # {}}
    IN  IF HasAt(t, p, LitQuotedFor) /\ B # {}
        THEN LET b == Max(B)
                 e == Min(CompanyEnds(t, b))
             IN  [ok |-> TRUE, start |-> p, end |-> e,
                  g1 |-> Slice(t, b, e), s1 |-> b, e1 |-> e]
        ELSE NoMatch

\* \s+\d{3,6}\s+[A-Za-z0-9 ]+ at position e
SecondStreetFollows(t, e) ==
    LET x == RunEnd(t, e, Whitespace)
        y == RunEnd(t, x, Digit)
        z == RunEnd(t, y, Whitespace)
    IN  /\ x > e
        /\ y - x \in 3..6
        /\ z > y
        /\ \E q \in (y + 1)..z : q <= Len(t) /\ t[q] \in Street2Chars

\* ends of [A-Za-z0-9 .]+? started at b that the second street run follows
StreetEnds(t, b) ==
    {e \in (b + 1)..RunEnd(t, b, StreetChars) : SecondStreetFollows(t, e)}

\* (\d{3,6}\s+[A-Za-z0-9 .]+?)\s+\d{3,6}\s+[A-Za-z0-9 ]+
\* The first number is a whole run of 3 to 6 digits from p, \s+ tries its
\* longest run first, the lazy class its shortest.
AddrMatchAt(t, p) ==
    LET a == RunEnd(t, p, Digit)
        w == RunEnd(t, a, Whitespace)
        B == {b \in (a + 1)..w : StreetEnds(t, b) # {}}
    IN  IF a - p \in 3..6 /\ B # {}
        THEN LET b == Max(B)
                 e == Min(StreetEnds(t, b))
             IN  [ok |-> TRUE, start |-> p, end |-> e,
                  g1 |-> Slice(t, p, e), s1 |-> p, e1 |-> e]
        ELSE NoMatch

\* ([A-Za-z .]+),\s*([A-Z]{2})\s+(\d{5})(?:-\d{4})?
CityMatchAt(t, p) ==
    LET c == RunEnd(t, p, CityChars)
        s == RunEnd(t, c + 1, Whitespace)
        z == RunEnd(t, s + 2, Whitespace)
    IN  IF /\ c > p
           /\ HasAt(t, c, <<",">>)
           /\ s + 1 <= Len(t)
           /\ t[s] \in Upper /\ t[s + 1] \in Upper
           /\ z > s + 2
           /\ z + 4 <= Len(t)
           /\ \A k \in 0..4 : t[z + k] \in Digit
        THEN [ok |-> TRUE, start |-> p, end |-> z + 5,
              g1 |-> Slice(t, p, c), s1 |-> p, e1 |-> c,
              g2 |-> Slice(t, s, s + 2), g3 |-> Slice(t, z, z + 5)]
        ELSE NoMatch

\* Quote Good Through\s+(\d{1,2}/\d{1,2}/\d{4})
ValidMatchAt(t, p) ==
    LET a == p + Len(LitQuoteGoodThrough)
        b == RunEnd(t, a, Whitespace)
        c == DateAt(t, b)
    IN  IF HasAt(t, p, LitQuoteGoodThrough) /\ b > a /\ c # 0
        THEN [ok |-> TRUE, start |-> p, end |-> c,
              g1 |-> Slice(t, b, c), s1 |-> b, e1 |-> c]
        ELSE NoMatch

m_quote(t) == search(QuoteMatchAt, t)

m_cust(t) == search(CustomerMatchAt, t)

m_contact(t) == search(ContactMatchAt, t)

\* variant of m_valid: the date is looked for at the first occurrence of the
\* literal only
m_valid_first_literal(t) ==
    LET p == find(t, LitQuoteGoodThrough, 1)
    IN  IF p = 0 THEN NoMatch ELSE ValidMatchAt(t, p)

m_valid(t) == search(ValidMatchAt, t)

\* variant of contact_names: the last name is the second token alone
contact_names_second_token(t) ==
    LET m == m_contact(t)
        parts == IF m.ok THEN split(strip(m.g1)) ELSE <<>>
    IN  IF Len(parts) >= 2
        THEN [first_name |-> parts[1], last_name |-> parts[2]]
        ELSE IF Len(parts) = 1
        THEN [first_name |-> parts[1], last_name |-> None]
        ELSE [first_name |-> None, last_name |-> None]

\* first_name, last_name of the contact run
contact_names(t) ==
    LET m == m_contact(t)
        parts == IF m.ok THEN split(strip(m.g1)) ELSE <<>>
    IN  IF Len(parts) >= 2
        THEN [first_name |-> parts[1], last_name |-> join(Tail(parts))]
        ELSE IF Len(parts) = 1
        THEN [first_name |-> parts[1], last_name |-> None]
        ELSE [first_name |-> None, last_name |-> None]

\* the block is cut only when both markers occur; where it starts and ends
has_addr_block(t) ==
    find(t, LitQuotedFor, 1) # 0 /\ find(t, LitQuoteGoodThrough, 1) # 0

addr_start(t) == find(t, LitQuotedFor, 1)

addr_end(t) == find(t, LitQuoteGoodThrough, 1)

\* variant of addr_block: the patterns are run on the whole text
addr_block_whole_text(t) == t

addr_block(t) == Slice(t, addr_start(t), addr_end(t))

\* the header entries taken from the address block
address_fields(block) ==
    LET m_company == search(CompanyMatchAt, block)
        m_addr == search(AddrMatchAt, block)
        m_city == search(CityMatchAt, block)
    IN  (IF m_company.ok THEN "Company" :> strip(m_company.g1) ELSE <<>>)
        @@ (IF m_addr.ok THEN "Address" :> strip(m_addr.g1) ELSE <<>>)
        @@ (IF m_city.ok
            THEN "City" :> strip(m_city.g1) @@ "State" :> m_city.g2
                 @@ "ZipCode" :> m_city.g3
            ELSE <<>>)
        @@ (IF find(block, LitUnitedStates, 1) # 0
            THEN "Country" :> LitUSA ELSE <<>>)

\* the dict returned by extract_header_info, as a function on the keys set
extract_header_info(t) ==
    (IF m_quote(t).ok
     THEN "QuoteNumber" :> m_quote(t).g1 @@ "QuoteDate" :> m_quote(t).g2
     ELSE <<>>)
    @@ (IF m_cust(t).ok THEN "CustomerNumber" :> m_cust(t).g1 ELSE <<>>)
    @@ ("FirstName" :> contact_names(t).first_name)
    @@ ("LastName" :> contact_names(t).last_name)
    @@ (IF has_addr_block(t) THEN address_fields(addr_block(t)) ELSE <<>>)
    @@ (IF m_valid(t).ok THEN "QuoteValidDate" :> m_valid(t).g1 ELSE <<>>)

\* header.get(key)
Get(h, key) == IF key \in DOMAIN h THEN h[key] ELSE None

----------------------------------------------------------------------------
(* extract_line_items                                                      *)

EAC == <<"E","A","C">>

StopWord == <<"P","r","o","d","u","c","t">>

\* [A-Z0-9.\-]
ItemIdChars == Upper \cup Digit \cup {".", "-"}

\* [\d,]
DigitComma == Digit \cup {","}

\* One attempt of the header-line pattern at position p:
\*   (?m)^(\d+)\s+([A-Z0-9.\-]+)\s+(\d+)\s+EAC\s+([\d,]+\.\d+)\s*EAC\s+([\d,]+\.\d{2})
\* Every repetition is followed by a character outside its own class, so each
\* takes its whole run and the engine has a single way to match.
LineItemMatchAt(t, p) ==
    LET a == RunEnd(t, p, Digit)
        b == RunEnd(t, a, Whitespace)
        c == RunEnd(t, b, ItemIdChars)
        d == RunEnd(t, c, Whitespace)
        e == RunEnd(t, d, Digit)
        f == RunEnd(t, e, Whitespace)
        g == RunEnd(t, f + 3, Whitespace)
        h == RunEnd(t, g, DigitComma)
        i == RunEnd(t, h + 1, Digit)
        j == RunEnd(t, i, Whitespace)
        k == RunEnd(t, j + 3, Whitespace)
        l == RunEnd(t, k, DigitComma)
        ok == /\ (p = 1 \/ t[p - 1] = "\n")
              /\ a > p /\ b > a /\ c > b /\ d > c /\ e > d /\ f > e
              /\ HasAt(t, f, EAC)
              /\ g > f + 3 /\ h > g
              /\ HasAt(t, h, <<".">>)
              /\ i > h + 1
              /\ HasAt(t, j, EAC)
              /\ k > j + 3 /\ l > k
              /\ HasAt(t, l, <<".">>)
              /\ l + 2 <= Len(t)
              /\ t[l + 1] \in Digit /\ t[l + 2] \in Digit
    IN  IF ok
        THEN [ok |-> TRUE, start |-> p, end |-> l + 3,
              g1 |-> Slice(t, p, a), g2 |-> Slice(t, b, c),
              g3 |-> Slice(t, d, e), g4 |-> Slice(t, g, i),
              g5 |-> Slice(t, k, l + 3)]
        ELSE NoMatch

\* variant of finditer: the first match only, as pattern.search gives
finditer_first_only(t, pos) ==
    LET S == {p \in pos..Len(t) : LineItemMatchAt(t, p).ok}
    IN  IF S = {} THEN <<>> ELSE <<LineItemMatchAt(t, Min(S))>>

\* pattern.finditer(full_text): leftmost match at or after pos, then on from
\* its end
RECURSIVE finditer(_, _)
finditer(t, pos) ==
    LET S == {p \in pos..Len(t) : LineItemMatchAt(t, p).ok}
    IN  IF S = {} THEN <<>>
        ELSE LET m == LineItemMatchAt(t, Min(S))
             IN  <<m>> \o finditer(t, m.end)

\* variant of end_desc: every match looks for the stop word
end_desc_always_stop(t, matches, i) ==
    LET stop == find(t, StopWord, matches[i].end)
        next == IF i + 1 <= Len(matches) THEN matches[i + 1].start
                ELSE Len(t) + 1
    IN  IF stop # 0 /\ stop < next THEN stop ELSE next

\* only the last match looks for the stop word
end_desc(t, matches, i) ==
    IF i + 1 <= Len(matches) THEN matches[i + 1].start
    ELSE LET stop == find(t, StopWord, matches[i].end)
         IN  IF stop = 0 THEN Len(t) + 1 ELSE stop

\* the body of the loop over the matches: one item for the i-th match
line_item(t, matches, i) ==
    [line_no     |-> matches[i].g1,
     item_id     |-> matches[i].g2,
     qty         |-> matches[i].g3,
     unit_price  |-> matches[i].g4,
     total       |-> matches[i].g5,
     description |->
         join(split(strip(
             Slice(t, matches[i].end, end_desc(t, matches, i)))))]

extract_line_items(t) ==
    LET matches == finditer(t, 1)
    IN  [i \in 1..Len(matches) |-> line_item(t, matches, i)]

----------------------------------------------------------------------------
(* extract_full_text and build_rows_for_pdf                                *)

\* what pdfplumber.open raises on bytes it cannot read
PdfError == "PDFSyntaxError"

\* the bytes of a PDF: whether pdfplumber can read them, and the pages they
\* hold; a page is its text, or NoText when page.extract_text() yields None
Corrupt == [readable |-> FALSE, pages |-> <<>>]

Pdf(pages) == [readable |-> TRUE, pages |-> pages]

NoText == <<"NoText">>

RECURSIVE page_texts(_)
page_texts(pages) ==
    IF pages = <<>> THEN <<>>
    ELSE (IF Head(pages) = NoText THEN <<>> ELSE Head(pages))
         \o <<"\n">> \o page_texts(Tail(pages))

extract_full_text(pdf_bytes) ==
    IF ~pdf_bytes.readable
    THEN [raised |-> TRUE, error |-> PdfError, value |-> <<>>]
    ELSE [raised |-> FALSE, error |-> "",
          value |-> page_texts(pdf_bytes.pages)]

\* s.replace(",", "")
RECURSIVE strip_commas(_)
strip_commas(s) ==
    IF s = <<>> THEN <<>>
    ELSE IF Head(s) = "," THEN strip_commas(Tail(s))
    ELSE <<Head(s)>> \o strip_commas(Tail(s))

DigitValue(c) ==
    CHOOSE n \in 0..9 : <<"0","1","2","3","4","5","6","7","8","9">>[n + 1] = c

RECURSIVE IntValue(_)
IntValue(ds) ==
    IF ds = <<>> THEN 0
    ELSE 10 * IntValue(SubSeq(ds, 1, Len(ds) - 1)) + DigitValue(ds[Len(ds)])

RECURSIVE TrimZeros(_)
TrimZeros(ds) ==
    IF ds # <<>> /\ ds[Len(ds)] = "0" THEN TrimZeros(SubSeq(ds, 1, Len(ds) - 1))
    ELSE ds

\* float(s) on text of digits, commas and dots: a numeral with at most one
\* dot and at least one digit gives its value, written <<"float", whole
\* part, fractional digits without trailing zeros>>; anything else raises
\* ValueError
float(s) ==
    LET dot == find(s, <<".">>, 1)
        whole == IF dot = 0 THEN s ELSE Slice(s, 1, dot)
        frac == IF dot = 0 THEN <<>> ELSE Slice(s, dot + 1, Len(s) + 1)
    IN  IF /\ \A k \in 1..Len(whole) : whole[k] \in Digit
           /\ \A k \in 1..Len(frac) : frac[k] \in Digit
           /\ Len(whole) + Len(frac) >= 1
        THEN [raised |-> FALSE,
              value |-> <<"float", IntValue(whole), TrimZeros(frac)>>]
        ELSE [raised |-> TRUE, value |-> None]

\* try: float(raw.replace(",", "")) except Exception: None
parse_number(raw) ==
    LET r == float(strip_commas(raw))
    IN  IF r.raised THEN None ELSE r.value

\* x or None
or_none(x) == IF x = <<>> THEN None ELSE x

build_row(hdr, it, filename, referral_manager, referral_email, brand) ==
    [ReferralManager   |-> or_none(referral_manager),
     ReferralEmail     |-> or_none(referral_email),
     Brand             |-> or_none(brand),
     QuoteNumber       |-> Get(hdr, "QuoteNumber"),
     QuoteDate         |-> Get(hdr, "QuoteDate"),
     Company           |-> Get(hdr, "Company"),
     FirstName         |-> Get(hdr, "FirstName"),
     LastName          |-> Get(hdr, "LastName"),
     ContactEmail      |-> None,
     ContactPhone      |-> None,
     Address           |-> Get(hdr, "Address"),
     County            |-> None,
     City              |-> Get(hdr, "City"),
     State             |-> Get(hdr, "State"),
     ZipCode           |-> Get(hdr, "ZipCode"),
     Country           |-> Get(hdr, "Country"),
     item_id           |-> it.item_id,
     item_desc         |-> it.description,
     UnitPrice         |-> parse_number(it.unit_price),
     TotalSales        |-> parse_number(it.total),
     QuoteValidDate    |-> Get(hdr, "QuoteValidDate"),
     CustomerNumber    |-> Get(hdr, "CustomerNumber"),
     manufacturer_Name |-> None,
     PDF               |-> filename,
     DemoQuote         |-> None]

\* variant of build_rows_for_pdf: the header dict outlives the document, so
\* a field this document does not give keeps the value of the last row
build_rows_for_pdf_shared_header(pdf_bytes, filename, referral_manager, referral_email, brand) ==
    LET text == extract_full_text(pdf_bytes)
    IN  IF text.raised
        THEN [raised |-> TRUE, error |-> text.error, rows |-> <<>>]
        ELSE LET own == extract_header_info(text.value)
                 hdr == [k \in {"QuoteNumber", "QuoteDate", "Company",
                                "FirstName", "LastName", "Address", "City",
                                "State", "ZipCode", "Country",
                                "QuoteValidDate", "CustomerNumber"} |->
                            IF Get(own, k) # None THEN own[k]
                            ELSE IF all_rows # <<>>
                            THEN all_rows[Len(all_rows)][k]
                            ELSE None]
                 its == extract_line_items(text.value)
             IN  [raised |-> FALSE, error |-> "",
                  rows |-> [i \in 1..Len(its) |->
                               build_row(hdr, its[i], filename,
                                         referral_manager, referral_email,
                                         brand)]]

\* the rows of one PDF, or the exception extract_full_text raised
build_rows_for_pdf(pdf_bytes, filename, referral_manager, referral_email, brand) ==
    LET text == extract_full_text(pdf_bytes)
    IN  IF text.raised
        THEN [raised |-> TRUE, error |-> text.error, rows |-> <<>>]
        ELSE LET hdr == extract_header_info(text.value)
                 its == extract_line_items(text.value)
             IN  [raised |-> FALSE, error |-> "",
                  rows |-> [i \in 1..Len(its) |->
                               build_row(hdr, its[i], filename,
                                         referral_manager, referral_email,
                                         brand)]]

----------------------------------------------------------------------------
(* The script run started by the "Process PDFs" button                     *)

MAX_FILES == 100

\* variant of too_many: a batch of exactly MAX_FILES files is refused
too_many_off_by_one(n) == n >= MAX_FILES

too_many(n) == n > MAX_FILES

MsgNoFiles == "Please upload at least one PDF."

MsgTooMany == "Please upload 100 PDFs or fewer at a time."

MsgNoItems == "No line items were found in the uploaded PDFs."

ExportName == "quotes_extracted.xlsx"

\* if process: the two checks on the upload, then the start of the loop
ClickProcess ==
    /\ pc = "idle"
    /\ IF uploaded_files = <<>>
       THEN /\ errors' = Append(errors, MsgNoFiles)
            /\ pc' = "done"
            /\ UNCHANGED <<all_rows, progress, status>>
       ELSE IF too_many(Len(uploaded_files))
       THEN /\ errors' = Append(errors, MsgTooMany)
            /\ pc' = "done"
            /\ UNCHANGED <<all_rows, progress, status>>
       ELSE /\ all_rows' = <<>>
            /\ progress' = <<0, Len(uploaded_files)>>
            /\ status' = None
            /\ pc' = "loop"
            /\ UNCHANGED errors
    /\ UNCHANGED <<sidebar, uploaded_files, idx, warnings, export>>
    /\ UNCHANGED <<full_text, header, items, fn>>

\* variant of ProcessFile without the try: the exception ends the run
ProcessFile_no_try ==
    /\ pc = "loop"
    /\ idx < Len(uploaded_files)
    /\ \E f \in {uploaded_files[idx + 1]} :
       \E r \in {build_rows_for_pdf(f.pdf, f.name, sidebar.referral_manager,
                                    sidebar.referral_email, sidebar.brand)} :
           /\ status' = <<idx + 1, Len(uploaded_files), f.name>>
           /\ IF r.raised
              THEN /\ errors' = Append(errors, r.error)
                   /\ pc' = "done"
                   /\ UNCHANGED <<all_rows, progress, idx>>
              ELSE /\ all_rows' = all_rows \o r.rows
                   /\ progress' = <<idx + 1, Len(uploaded_files)>>
                   /\ idx' = idx + 1
                   /\ UNCHANGED <<errors, pc>>
    /\ UNCHANGED <<sidebar, uploaded_files, warnings, export>>
    /\ UNCHANGED <<full_text, header, items, fn>>

\* one pass of: for idx, f in enumerate(uploaded_files, start=1)
ProcessFile ==
    /\ pc = "loop"
    /\ idx < Len(uploaded_files)
    /\ \E f \in {uploaded_files[idx + 1]} :
       \E r \in {build_rows_for_pdf(f.pdf, f.name, sidebar.referral_manager,
                                    sidebar.referral_email, sidebar.brand)} :
           /\ status' = <<idx + 1, Len(uploaded_files), f.name>>
           /\ IF r.raised
              THEN /\ warnings' = Append(warnings, [file |-> f.name, error |-> r.error])
                   /\ UNCHANGED all_rows
              ELSE /\ all_rows' = all_rows \o r.rows
                   /\ UNCHANGED warnings
           /\ progress' = <<idx + 1, Len(uploaded_files)>>
           /\ idx' = idx + 1
    /\ UNCHANGED <<sidebar, uploaded_files, pc, errors, export>>
    /\ UNCHANGED <<full_text, header, items, fn>>

\* after the loop: the error, or the table and its download
Finish ==
    /\ pc = "loop"
    /\ idx = Len(uploaded_files)
    /\ IF all_rows = <<>>
       THEN errors' = Append(errors, MsgNoItems) /\ UNCHANGED export
       ELSE /\ export' = Append(export, [file_name |-> ExportName,
                                          sheet_name |-> "Quotes",
                                          rows |-> all_rows])
            /\ UNCHANGED errors
    /\ pc' = "done"
    /\ UNCHANGED <<sidebar, uploaded_files, idx, all_rows, warnings, status, progress>>
    /\ UNCHANGED <<full_text, header, items, fn>>

----------------------------------------------------------------------------
(* Inputs of the line-item extractor: texts made of at most MaxItemFrags   *)
(* pieces of a quote body                                                  *)

MaxItemFrags == 4

\* "1 HW.M-1 27 EAC 3,600.00000EAC 97,200.00"
FragItemA == <<"1"," ","H","W",".","M","-","1"," ","2","7"," ","E","A","C"," ","3",",","6","0","0",".","0","0","0","0","0","E","A","C"," ","9","7",",","2","0","0",".","0","0">>

\* "\n2 B2 1 EAC 5.5 EAC 5.50"
FragItemB == <<"\n","2"," ","B","2"," ","1"," ","E","A","C"," ","5",".","5"," ","E","A","C"," ","5",".","5","0">>

\* "\n3 C3\n1 EAC 2.0EAC\n2.005": a header line broken over three lines
FragItemBroken == <<"\n","3"," ","C","3","\n","1"," ","E","A","C"," ","2",".","0","E","A","C","\n","2",".","0","0","5">>

\* "\n4 D4 1 EAC 5 EAC 5.00": unit price without a fractional part
FragItemBad == <<"\n","4"," ","D","4"," ","1"," ","E","A","C"," ","5"," ","E","A","C"," ","5",".","0","0">>

\* "\n 5 E5 1 EAC 1.5EAC 1.50": well formed, but not at the start of a line
FragItemIndented == <<"\n"," ","5"," ","E","5"," ","1"," ","E","A","C"," ","1",".","5","E","A","C"," ","1",".","5","0">>

\* " Mag foot\n  kit "
FragDesc == <<" ","M","a","g"," ","f","o","o","t","\n"," "," ","k","i","t"," ">>

\* "Product 9.00"
FragProduct == <<"P","r","o","d","u","c","t"," ","9",".","0","0">>

ItemFrags == {FragItemA, FragItemB, FragItemBroken, FragItemBad,
              FragItemIndented, FragDesc, FragProduct}

RECURSIVE Concat(_)
Concat(ss) == IF ss = <<>> THEN <<>> ELSE Head(ss) \o Concat(Tail(ss))

TextsOf(frags, n) ==
    {Concat(ss) : ss \in UNION {[1..k -> frags] : k \in 0..n}}

ItemTexts == TextsOf(ItemFrags, MaxItemFrags)

----------------------------------------------------------------------------
(* A call of extract_line_items on one text                                *)

\* the sidebar as the script fills it in
DefaultEmail == <<"p","l","a","w","r","u","k","@","c","a","d","r","e","w","i","r","e",".","c","o","m">>

DefaultBrand == <<"C","a","d","r","e"," ","W","i","r","e"," ","G","r","o","u","p">>

DefaultSidebar ==
    [referral_manager |-> <<>>, referral_email |-> DefaultEmail,
     brand |-> DefaultBrand]

IdleBatch ==
    /\ sidebar = DefaultSidebar
    /\ uploaded_files = <<>>
    /\ pc = "idle"
    /\ idx = 0
    /\ all_rows = <<>>
    /\ warnings = <<>>
    /\ errors = <<>>
    /\ export = <<>>
    /\ status = None
    /\ progress = None

InitItems ==
    /\ IdleBatch
    /\ full_text \in ItemTexts
    /\ header = <<>>
    /\ items = <<>>
    /\ fn = "call"

ExtractLineItems ==
    /\ fn = "call"
    /\ items' = extract_line_items(full_text)
    /\ fn' = "return"
    /\ UNCHANGED <<full_text, header>>
    /\ UNCHANGED batchVars

NextItems == ExtractLineItems

SpecItems == InitItems /\ [][NextItems]_vars

----------------------------------------------------------------------------
(* Inputs of the header extractor: texts made of at most MaxHeaderFrags    *)
(* pieces of a quote header, in any order                                  *)

MaxHeaderFrags == 3

\* "Quote 120987 Date 11/24/2025\n"
FragQuote == <<"Q","u","o","t","e"," ","1","2","0","9","8","7"," ","D","a","t","e"," ","1","1","/","2","4","/","2","0","2","5","\n">>

\* "Customer 100725\n"
FragCustomer == <<"C","u","s","t","o","m","e","r"," ","1","0","0","7","2","5","\n">>

\* "Contact Mike Shafer ": the line goes on with the next piece
FragContact == <<"C","o","n","t","a","c","t"," ","M","i","k","e"," ","S","h","a","f","e","r"," ">>

\* "Contact Jo\n"
FragContactOne == <<"C","o","n","t","a","c","t"," ","J","o","\n">>

\* "Contact  \n": the name was left blank
FragContactBlank == <<"C","o","n","t","a","c","t"," "," ","\n">>

\* "Quoted For: AC Ship To: AC\n"
FragQuotedFor == <<"Q","u","o","t","e","d"," ","F","o","r",":"," ","A","C"," ","S","h","i","p"," ","T","o",":"," ","A","C","\n">>

\* "123 M St 123 M St\nAkron, OH 44306\nUnited States of America\n"
FragAddress == <<"1","2","3"," ","M"," ","S","t"," ","1","2","3"," ","M"," ","S","t","\n","A","k","r","o","n",","," ","O","H"," ","4","4","3","0","6","\n","U","n","i","t","e","d"," ","S","t","a","t","e","s"," ","o","f"," ","A","m","e","r","i","c","a","\n">>

\* "Quote Good Through 12/09/2025\n"
FragValid == <<"Q","u","o","t","e"," ","G","o","o","d"," ","T","h","r","o","u","g","h"," ","1","2","/","0","9","/","2","0","2","5","\n">>

\* "Quote Good Through: 1/2/2026\n": a colon stands before the date
FragValidColon == <<"Q","u","o","t","e"," ","G","o","o","d"," ","T","h","r","o","u","g","h",":"," ","1","/","2","/","2","0","2","6","\n">>

\* "Quote Date 1/5/2025\n": the quote number is missing
FragQuoteBare == <<"Q","u","o","t","e"," ","D","a","t","e"," ","1","/","5","/","2","0","2","5","\n">>

\* "Rome, NY 13440-1234\n": a second city line, with an extended zip
FragCity == <<"R","o","m","e",","," ","N","Y"," ","1","3","4","4","0","-","1","2","3","4","\n">>

HeaderFrags == {FragQuote, FragQuoteBare, FragCustomer, FragContact,
                FragContactOne, FragContactBlank, FragQuotedFor, FragAddress,
                FragCity, FragValid, FragValidColon}

HeaderTexts == TextsOf(HeaderFrags, MaxHeaderFrags)

----------------------------------------------------------------------------
(* A call of extract_header_info on one text                               *)

InitHeader ==
    /\ IdleBatch
    /\ full_text \in HeaderTexts
    /\ header = <<>>
    /\ items = <<>>
    /\ fn = "call"

ExtractHeaderInfo ==
    /\ fn = "call"
    /\ header' = extract_header_info(full_text)
    /\ fn' = "return"
    /\ UNCHANGED <<full_text, items>>
    /\ UNCHANGED batchVars

NextHeader == ExtractHeaderInfo

SpecHeader == InitHeader /\ [][NextHeader]_vars

----------------------------------------------------------------------------
(* Inputs of a script run: the sidebar and the uploaded files              *)

\* every batch of at most MaxSmallBatch files, and batches of
\* MAX_FILES - 1 to MAX_FILES + MaxOver files that repeat a pattern of
\* PatternLen kinds of PDF
MaxSmallBatch == 3

MaxOver == 1

PatternLen == 2

\* a quote of two pages: the full header, then two line items
PdfFull ==
    Pdf(<< FragQuote \o FragCustomer \o FragContactOne \o FragQuotedFor
           \o FragAddress \o FragValid,
       FragItemA \o FragDesc \o FragItemB \o FragDesc \o FragProduct >>)

\* a quote of one page: customer and contact only, one line item
PdfPartial == Pdf(<< FragCustomer \o FragContactOne \o FragItemA \o FragDesc >>)

\* a scanned quote: two pages without a text layer
PdfScanned == Pdf(<< NoText, NoText >>)

PdfKinds == {PdfFull, PdfPartial, PdfScanned, Corrupt}

LargeKinds == {PdfPartial, PdfScanned, Corrupt}

\* files are named by position, a.pdf and b.pdf in turn, so the third file
\* repeats the name of the first
FileName(i) ==
    IF i % 2 = 1 THEN <<"a",".","p","d","f">> ELSE <<"b",".","p","d","f">>

FilesOf(kinds) == [i \in 1..Len(kinds) |-> [name |-> FileName(i), pdf |-> kinds[i]]]

SmallBatches ==
    {FilesOf(ks) : ks \in UNION {[1..n -> PdfKinds] : n \in 0..MaxSmallBatch}}

LargeBatches ==
    {FilesOf([i \in 1..n |-> pat[((i - 1) % PatternLen) + 1]]) :
        n \in (MAX_FILES - 1)..(MAX_FILES + MaxOver),
        pat \in [1..PatternLen -> LargeKinds]}

Sidebars ==
    {DefaultSidebar,
     [referral_manager |-> <<"J","."," ","D","o","e">>,
      referral_email |-> <<>>, brand |-> DefaultBrand]}

Init ==
    /\ sidebar \in Sidebars
    /\ uploaded_files \in SmallBatches \cup LargeBatches
    /\ pc = "idle"
    /\ idx = 0
    /\ all_rows = <<>>
    /\ warnings = <<>>
    /\ errors = <<>>
    /\ export = <<>>
    /\ status = None
    /\ progress = None
    /\ full_text = <<>>
    /\ header = <<>>
    /\ items = <<>>
    /\ fn = "call"

Next == ClickProcess \/ ProcessFile \/ Finish

Spec == Init /\ [][Next]_vars

----------------------------------------------------------------------------
(* Properties of extract_line_items, checked under SpecItems               *)

\* every position of the text where the header-line pattern matches
MatchStarts(t) == {p \in 1..Len(t) : LineItemMatchAt(t, p).ok}

\* the i-th match of the text, in order of appearance
NthMatch(t, i) ==
    LET S == MatchStarts(t)
    IN  LineItemMatchAt(t, CHOOSE p \in S : Cardinality({q \in S : q < p}) = i - 1)

\* a position lies inside one of the matches
InsideMatch(t, p) ==
    \E q \in MatchStarts(t) : q <= p /\ p < LineItemMatchAt(t, q).end

\* C2: extract_line_items returns exactly one item per match of the
\* header-line pattern, in order of appearance, the i-th item carrying the
\* five captures of the i-th match; no match gives the empty sequence.
C2_OneItemPerMatch ==
    fn = "return" =>
        /\ Len(items) = Cardinality(MatchStarts(full_text))
        /\ \A i \in 1..Len(items) :
              LET m == NthMatch(full_text, i)
              IN  /\ items[i].line_no = m.g1
                  /\ items[i].item_id = m.g2
                  /\ items[i].qty = m.g3
                  /\ items[i].unit_price = m.g4
                  /\ items[i].total = m.g5

\* two items were returned from a text that also holds an "EAC" outside
\* every match (a malformed or indented header line)
C2_Witness ==
    /\ fn = "return"
    /\ Len(items) >= 2
    /\ \E p \in 1..Len(full_text) :
          HasAt(full_text, p, EAC) /\ ~InsideMatch(full_text, p)

\* leading blanks dropped, every other run of blanks that is followed by
\* text replaced by one space, trailing blanks dropped
RECURSIVE Squeeze(_)
Squeeze(s) ==
    IF s = <<>> THEN <<>>
    ELSE IF Head(s) \notin Whitespace THEN <<Head(s)>> \o Squeeze(Tail(s))
    ELSE IF Tail(s) = <<>> \/ Head(Tail(s)) \in Whitespace THEN Squeeze(Tail(s))
    ELSE <<" ">> \o Squeeze(Tail(s))

Collapsed(s) ==
    LET q == Squeeze(s)
    IN  IF s # <<>> /\ s[1] \in Whitespace /\ q # <<>> THEN Tail(q) ELSE q

\* positions at or after p where the literal "Product" stands
ProductsFrom(t, p) == {q \in p..Len(t) : HasAt(t, q, StopWord)}

\* the span the claim gives the i-th of n matches
DescriptionSpan(t, i, n) ==
    LET own == NthMatch(t, i).end
        stop == IF i < n THEN NthMatch(t, i + 1).start
                ELSE IF ProductsFrom(t, own) # {} THEN Min(ProductsFrom(t, own))
                ELSE Len(t) + 1
    IN  Slice(t, own, stop)

\* C3: the description of the i-th item is the trimmed, whitespace-collapsed
\* text from the end of its own match to the start of the next match; for
\* the last match it ends at the first "Product" at or after the end of the
\* match, else at the end of the text.  A "Product" between two matches
\* does not shorten the earlier item's description.
C3_DescriptionSpan ==
    fn = "return" =>
        \A i \in 1..Len(items) :
            items[i].description =
                Collapsed(DescriptionSpan(full_text, i, Len(items)))

\* "Product" stands between two matches and is kept in the earlier item's
\* description, and another "Product" cuts the last item's description
C3_Witness ==
    /\ fn = "return"
    /\ Len(items) >= 2
    /\ find(items[1].description, StopWord, 1) # 0
    /\ ProductsFrom(full_text, NthMatch(full_text, Len(items)).end) # {}
    /\ find(items[Len(items)].description, StopWord, 1) = 0
    /\ items[Len(items)].description # <<>>

----------------------------------------------------------------------------
(* Properties of extract_header_info, checked under SpecHeader             *)

IsSet(h, key) == Get(h, key) # None

\* every position of the text where the literal stands
Occurrences(t, lit) == {p \in 1..Len(t) : HasAt(t, p, lit)}

AddressKeys == {"Company", "Address", "City", "State", "ZipCode", "Country"}

AddressPart(h) == [k \in AddressKeys |-> Get(h, k)]

BothMarkers(t) ==
    /\ Occurrences(t, LitQuotedFor) # {}
    /\ Occurrences(t, LitQuoteGoodThrough) # {}

\* the text from the first "Quoted For:" up to the first "Quote Good
\* Through"; empty when a marker is missing or the second stands first
MarkerSpan(t) ==
    IF BothMarkers(t)
    THEN SubSeq(t, Min(Occurrences(t, LitQuotedFor)),
                Min(Occurrences(t, LitQuoteGoodThrough)) - 1)
    ELSE <<>>

\* C6: the address-block fields are set only when both markers occur; their
\* values are those the extractor gives for the marker span alone (closed by
\* the end marker), whatever stands outside the span; when the first "Quote
\* Good Through" precedes the first "Quoted For:" none of them is set.
C6_AddressBlockScope ==
    fn = "return" =>
        /\ (\E k \in AddressKeys : IsSet(header, k)) => BothMarkers(full_text)
        /\ AddressPart(header) =
               AddressPart(extract_header_info(
                   MarkerSpan(full_text) \o LitQuoteGoodThrough))
        /\ ( /\ BothMarkers(full_text)
             /\ Min(Occurrences(full_text, LitQuoteGoodThrough))
                    < Min(Occurrences(full_text, LitQuotedFor)) )
               => \A k \in AddressKeys : ~IsSet(header, k)

\* the company was taken from the span while a city, state and zip stand
\* in the text outside the span and were not taken
C6_Witness ==
    /\ fn = "return"
    /\ IsSet(header, "Company")
    /\ search(CityMatchAt, full_text).ok
    /\ ~IsSet(header, "City")

\* where the words of s start
TokenStarts(s) ==
    {i \in 1..Len(s) : s[i] \notin Whitespace /\ (i = 1 \/ s[i - 1] \in Whitespace)}

FirstToken(s) ==
    LET i == Min(TokenStarts(s))
    IN  SubSeq(s, i, RunEndNot(s, i, Whitespace) - 1)

AfterFirstToken(s) ==
    SubSeq(s, RunEndNot(s, Min(TokenStarts(s)), Whitespace), Len(s))

\* number of words of the run the contact pattern captured; 0 without match
ContactTokens(t) ==
    IF m_contact(t).ok THEN Cardinality(TokenStarts(m_contact(t).g1)) ELSE 0

\* C7 as stated: whenever the contact pattern matches, FirstName is the
\* first token of the captured run, LastName the remaining tokens joined by
\* single spaces (unset with exactly one token); without a match both are
\* unset.
C7_Original ==
    fn = "return" =>
        LET m == m_contact(full_text)
            n == ContactTokens(full_text)
        IN  /\ m.ok =>
                  /\ n >= 1
                  /\ Get(header, "FirstName") = FirstToken(m.g1)
                  /\ n >= 2 => Get(header, "LastName")
                                   = Collapsed(AfterFirstToken(m.g1))
                  /\ n = 1 => ~IsSet(header, "LastName")
            /\ ~m.ok => ~IsSet(header, "FirstName") /\ ~IsSet(header, "LastName")

\* C7 as amended: when the captured run holds at least one token FirstName
\* is the first token and LastName the remaining tokens joined by single
\* spaces (unset with exactly one token); when the pattern does not match,
\* or the captured run holds only spaces, both are unset.
C7_ContactNames ==
    fn = "return" =>
        LET m == m_contact(full_text)
            n == ContactTokens(full_text)
        IN  /\ n >= 1 => Get(header, "FirstName") = FirstToken(m.g1)
            /\ n >= 2 => Get(header, "LastName")
                             = Collapsed(AfterFirstToken(m.g1))
            /\ n = 1 => ~IsSet(header, "LastName")
            /\ n = 0 => ~IsSet(header, "FirstName") /\ ~IsSet(header, "LastName")

\* a captured run of three tokens: the last name is two tokens joined
C7_Witness ==
    /\ fn = "return"
    /\ ContactTokens(full_text) >= 3
    /\ IsSet(header, "FirstName")
    /\ find(Get(header, "LastName"), <<" ">>, 1) # 0

\* where a date in M/D/YYYY form stands at or after p
DatesFrom(t, p) == {q \in p..Len(t) : DateAt(t, q) # 0}

\* C8 as stated: QuoteValidDate is the first date in M/D/YYYY form that
\* follows the literal "Quote Good Through", and is unset only when no such
\* date follows the literal.
C8_Original ==
    fn = "return" =>
        LET t == full_text
            occ == Occurrences(t, LitQuoteGoodThrough)
            after == IF occ = {} THEN {}
                     ELSE DatesFrom(t, Min(occ) + Len(LitQuoteGoodThrough))
        IN  IF after = {} THEN ~IsSet(header, "QuoteValidDate")
            ELSE Get(header, "QuoteValidDate")
                     = Slice(t, Min(after), DateAt(t, Min(after)))

\* occurrences of the literal with only whitespace (at least one character)
\* between them and a date
DatedOccurrences(t) ==
    {p \in Occurrences(t, LitQuoteGoodThrough) :
        LET a == p + Len(LitQuoteGoodThrough)
            b == RunEnd(t, a, Whitespace)
        IN  b > a /\ DateAt(t, b) # 0}

\* C8 as amended: QuoteValidDate is the date in M/D/YYYY form that stands
\* directly after the first occurrence of "Quote Good Through" that is
\* followed by whitespace and then such a date; it is unset exactly when no
\* occurrence of the literal is followed that way.
C8_ValidDate ==
    fn = "return" =>
        LET t == full_text
            occ == DatedOccurrences(t)
        IN  IF occ = {} THEN ~IsSet(header, "QuoteValidDate")
            ELSE LET b == RunEnd(t, Min(occ) + Len(LitQuoteGoodThrough),
                                 Whitespace)
                 IN  Get(header, "QuoteValidDate") = Slice(t, b, DateAt(t, b))

\* the date comes from a later occurrence of the literal: the first
\* occurrence is not directly followed by a date
C8_Witness ==
    /\ fn = "return"
    /\ IsSet(header, "QuoteValidDate")
    /\ Min(Occurrences(full_text, LitQuoteGoodThrough))
           \notin DatedOccurrences(full_text)

\* two spans of the text share a character
Overlaps(a1, b1, a2, b2) == a1 < b1 /\ a2 < b2 /\ a1 < b2 /\ a2 < b1

\* the captured span of match m, moved by off, shares a character with [a, b)
Consumes(m, off, a, b) == m.ok /\ Overlaps(m.s1 + off, m.e1 + off, a, b)

\* the span of the contact run without its leading and trailing blanks
ContactConsumes(t, a, b) ==
    LET m == m_contact(t)
    IN  /\ m.ok
        /\ TokenStarts(m.g1) # {}
        /\ Overlaps(m.s1 + Min(TokenStarts(m.g1)) - 1,
                    m.s1 + Max({k \in 1..Len(m.g1) : m.g1[k] \notin Whitespace}),
                    a, b)

\* an address-block field was captured from characters of [a, b)
AddressConsumes(t, a, b) ==
    /\ has_addr_block(t)
    /\ LET off == addr_start(t) - 1
           block == addr_block(t)
       IN  \/ Consumes(search(CompanyMatchAt, block), off, a, b)
           \/ Consumes(search(AddrMatchAt, block), off, a, b)
           \/ Consumes(search(CityMatchAt, block), off, a, b)

QuoteOccurrences(t) == {p \in 1..Len(t) : QuoteMatchAt(t, p).ok}

\* C9, first part: QuoteNumber is set if and only if QuoteDate is set, both
\* exactly when "Quote", a number, "Date" and a date stand in the text in
\* that order separated by whitespace, with the values of the first such
\* occurrence.
C9_BothOrNeither ==
    fn = "return" =>
        LET occ == QuoteOccurrences(full_text)
        IN  /\ IsSet(header, "QuoteNumber") <=> IsSet(header, "QuoteDate")
            /\ IsSet(header, "QuoteNumber") <=> occ # {}
            /\ occ # {} =>
                  /\ Get(header, "QuoteNumber")
                         = QuoteMatchAt(full_text, Min(occ)).g1
                  /\ Get(header, "QuoteDate")
                         = QuoteMatchAt(full_text, Min(occ)).g2

\* C9, last part: no other header field takes its value from the tokens of
\* the Quote/Date occurrence.
C9_NoOtherFieldConsumes ==
    fn = "return" =>
        LET t == full_text
            q == m_quote(t)
        IN  q.ok =>
               /\ ~Consumes(m_cust(t), 0, q.start, q.end)
               /\ ~Consumes(m_valid(t), 0, q.start, q.end)
               /\ ~ContactConsumes(t, q.start, q.end)
               /\ ~AddressConsumes(t, q.start, q.end)

\* C9: in every HeaderFields, QuoteNumber and QuoteDate are set together,
\* exactly when the Quote/Date pattern occurs and from its first occurrence,
\* and no other header field takes its value from those tokens.
C9_Claim == C9_BothOrNeither /\ C9_NoOtherFieldConsumes

----------------------------------------------------------------------------
(* Properties of the batch loop and of record assembly, checked under Spec *)

\* the batch passed both checks on the upload
Accepted == Len(uploaded_files) \in 1..MAX_FILES

\* the loop has started, or the run is over
Running == Accepted /\ pc \in {"loop", "done"}

\* the document raises while it is processed
Fails(f) == ~f.pdf.readable

\* what the extractors give for each kind of PDF of the batches
TextOfPdf == [pdf \in PdfKinds |-> page_texts(pdf.pages)]

HeaderOfPdf == [pdf \in PdfKinds |-> extract_header_info(TextOfPdf[pdf])]

ItemsOfPdf == [pdf \in PdfKinds |-> extract_line_items(TextOfPdf[pdf])]

FileNames == {FileName(i) : i \in 1..2}

RowsOfPdf ==
    [sb \in Sidebars, pdf \in PdfKinds, name \in FileNames |->
        build_rows_for_pdf(pdf, name, sb.referral_manager,
                           sb.referral_email, sb.brand).rows]

\* the rows of the documents among the first n that do not fail
RECURSIVE RowsOfGood(_)
RowsOfGood(n) ==
    IF n = 0 THEN <<>>
    ELSE LET f == uploaded_files[n]
         IN  RowsOfGood(n - 1)
             \o (IF Fails(f) THEN <<>> ELSE RowsOfPdf[sidebar, f.pdf, f.name])

\* one warning for each document among the first n that fails
RECURSIVE WarningsOfFailing(_)
WarningsOfFailing(n) ==
    IF n = 0 THEN <<>>
    ELSE LET f == uploaded_files[n]
         IN  WarningsOfFailing(n - 1)
             \o (IF Fails(f) THEN <<[file |-> f.name, error |-> PdfError]>>
                 ELSE <<>>)

\* C1: a failing document never aborts the batch: each failing document
\* handled so far gave no row and exactly one warning naming it, every other
\* document handled so far gave its rows, and the run ends only after the
\* last document was handled.
C1_FailureIsolation ==
    Running =>
        /\ warnings = WarningsOfFailing(idx)
        /\ all_rows = RowsOfGood(idx)
        /\ pc = "done" => idx = Len(uploaded_files)

\* a finished batch of three documents whose second one failed: one
\* warning, one row of the first document and two rows of the third
C1_Witness ==
    /\ pc = "done"
    /\ Len(uploaded_files) = 3
    /\ uploaded_files[1].pdf = PdfPartial
    /\ Fails(uploaded_files[2])
    /\ uploaded_files[3].pdf = PdfFull
    /\ Len(warnings) = 1
    /\ warnings[1].file = uploaded_files[2].name
    /\ Len(all_rows) = 3
    /\ all_rows[1].QuoteNumber = None
    /\ all_rows[3].QuoteNumber # None

\* <<document, item>> of every row the first n documents give, in order
RECURSIVE Owners(_)
Owners(n) ==
    IF n = 0 THEN <<>>
    ELSE LET f == uploaded_files[n]
         IN  Owners(n - 1)
             \o (IF Fails(f) THEN <<>>
                 ELSE [j \in 1..Len(ItemsOfPdf[f.pdf]) |-> <<n, j>>])

HeaderColumns ==
    {"QuoteNumber", "QuoteDate", "Company", "FirstName", "LastName",
     "Address", "City", "State", "ZipCode", "Country", "QuoteValidDate",
     "CustomerNumber"}

ReservedColumns ==
    {"ContactEmail", "ContactPhone", "County", "manufacturer_Name", "DemoQuote"}

\* C4: the collected rows are, in upload order, one row per line item of
\* each document that was processed without failure; the header columns of
\* a row are the header fields of its own document (null where that
\* document gave none), its PDF column is that document's file name, and
\* the reserved columns are null.
C4_CrossJoin ==
    Running =>
        LET own == Owners(idx)
        IN  /\ Len(all_rows) = Len(own)
            /\ \A r \in 1..Len(own) :
                  LET f == uploaded_files[own[r][1]]
                      it == ItemsOfPdf[f.pdf][own[r][2]]
                      row == all_rows[r]
                  IN  /\ \A c \in HeaderColumns :
                            row[c] = Get(HeaderOfPdf[f.pdf], c)
                      /\ row.PDF = f.name
                      /\ \A c \in ReservedColumns : row[c] = None
                      /\ row.item_id = it.item_id
                      /\ row.item_desc = it.description

\* a finished batch where a document without quote number and address
\* follows one that has them: its rows hold null there
C4_Witness ==
    /\ pc = "done"
    /\ Len(all_rows) >= 3
    /\ all_rows[1].QuoteNumber # None
    /\ all_rows[1].City # None
    /\ all_rows[Len(all_rows)].QuoteNumber = None
    /\ all_rows[Len(all_rows)].City = None
    /\ all_rows[Len(all_rows)].PDF # all_rows[1].PDF

\* C5: with no file or more than 100 files "Process" shows an error and
\* handles no document; with 1 to 100 files every document is handled; an
\* export is produced exactly when the batch has 1 to 100 files and at
\* least one row was collected, and an error is shown otherwise.
C5_BatchValidation ==
    /\ ~Accepted => /\ pc # "loop"
                    /\ idx = 0 /\ status = None /\ progress = None
                    /\ all_rows = <<>> /\ warnings = <<>>
    /\ pc = "done" =>
          /\ ~Accepted => Len(errors) = 1
          /\ Accepted => idx = Len(uploaded_files)
          /\ export # <<>> <=> (Accepted /\ all_rows # <<>>)
          /\ export = <<>> <=> errors # <<>>
          /\ export # <<>> => Len(export) = 1 /\ export[1].rows = all_rows

\* a finished batch of exactly 100 files with an export
C5_Witness ==
    /\ pc = "done"
    /\ Len(uploaded_files) = MAX_FILES
    /\ idx = MAX_FILES
    /\ export # <<>>
    /\ warnings # <<>>

\* the text without its commas is a numeral: digits with at most one dot
IsNumeral(s) ==
    LET r == SelectSeq(s, LAMBDA c : c # ",")
    IN  /\ \A k \in 1..Len(r) : r[k] \in Digit \cup {"."}
        /\ Cardinality({k \in 1..Len(r) : r[k] = "."}) <= 1
        /\ \E k \in 1..Len(r) : r[k] \in Digit

\* the documents among the first n that can be read
ReadableAmong(n) == {k \in 1..n : ~Fails(uploaded_files[k])}

\* What the rows show of the numeric fields: a document that can be read
\* gives one row for each of its line items and no warning, and UnitPrice
\* and TotalSales are null only for a text float() rejects.  The line item
\* pattern captures digits, commas and one dot only, so every captured
\* price and total is a numeral and the except branches of lines 193-199
\* are never entered from extract_line_items.
NumericFieldsOfRows ==
    Running =>
        LET own == Owners(idx)
        IN  /\ Len(warnings) = idx - Cardinality(ReadableAmong(idx))
            /\ Len(all_rows) = Len(own)
            /\ \A r \in 1..Len(own) :
                  LET f == uploaded_files[own[r][1]]
                      it == ItemsOfPdf[f.pdf][own[r][2]]
                      row == all_rows[r]
                  IN  /\ row.UnitPrice = None <=> ~IsNumeral(it.unit_price)
                      /\ row.TotalSales = None <=> ~IsNumeral(it.total)
                      /\ row.item_id = it.item_id
                      /\ row.item_desc = it.description
                      /\ row.PDF = f.name

\* a row whose unit price and total were written with thousands separators
\* and were parsed: 3,600.00000 as 3600.0 and 97,200.00 as 97200.0
NumericFieldsParsed ==
    /\ pc = "done"
    /\ all_rows # <<>>
    /\ ItemsOfPdf[uploaded_files[1].pdf] # <<>>
    /\ find(ItemsOfPdf[uploaded_files[1].pdf][1].unit_price, <<",">>, 1) # 0
    /\ all_rows[1].UnitPrice = <<"float", 3600, <<>>>>
    /\ all_rows[1].TotalSales = <<"float", 97200, <<>>>>

====
